---- MODULE Spec2Model ----
(***************************************************************************)
(* Population dashboards (Shiny for Python): age_app.py, age_app_shiny.py  *)
(* and pva/app_2.py.                                                       *)
(*                                                                         *)
(* A Shiny session has a server side (reactive values, inputs, effects)    *)
(* and a browser side (the widgets).  ui.update_slider / ui.update_select  *)
(* do not assign the server's input value: they send a message to the      *)
(* browser, the browser sets the widget and, when the widget's value       *)
(* changed, reports the new value back; input.year() changes only when     *)
(* that report arrives.  The model keeps both sides and the messages in    *)
(* flight between them, one FIFO per control and direction.                *)
(*                                                                         *)
(* The server runs one reactive flush at a time: an event (a report from   *)
(* the browser, a click, a timer of reactive.invalidate_later) invalidates *)
(* the effects that read what it changed, and every invalidated effect is  *)
(* executed before the next event is taken.                                *)
(***************************************************************************)
EXTENDS Integers, Sequences, FiniteSets, TLC

\* ------------------------------------------------------------------ bounds
\* last year of the loaded population tables (the data set is external)
LastYear == 1952
\* last year of the data set in the 1950..2023 tick-count scenario
ScenarioLastYear == 2023
\* a new event that sends messages is taken only while fewer than this many
\* messages are in flight in the session (both directions together)
MaxInFlight == 2
\* the user starts the median animation only within this many years of the
\* slider's maximum, and drags the slider only there while it plays
PlayWindow == 2
\* rows per table when tables are enumerated
MaxRows == 2
\* age brackets per table when column orders are enumerated
MaxBrackets == 3
\* ticks counted in the tick-count scenario beyond the span of the slider
ExtraTicks == 3

\* ------------------------------------------------------- program constants
\* age_app.py: ui.input_slider("year", ..., value=1950)
InitialYear == 1950
\* age_app.py: reset: ui.update_slider("year", value=1950) and
\* ui.update_slider("median_year", value=1950)
\* faulty variant: the reset writes another year than the slider's initial value
ResetYear_off == InitialYear + 1
ResetYear == 1950
ResetMedianYear == 1950
\* age_app.py: ui.input_slider("median_year", min=1950, max=2100, value=1950)
MedianMin == 1950
MedianMax == 2100
InitialMedianYear == 1950
\* age_app.py: _animate_median_age: max_median_year = 2100
max_median_year == 2100
\* age_app.py: get_median_data / projection_info: year > 2023
ProjectionCutoff == 2023
\* pva/app_2.py: ui.input_slider("top_n", min=5, max=51, value=51)
TopNMin == 5
TopNMax == 51

InitialEntity == "World"
ResetEntity == "World"
median_regions == {"Asia (UN)", "Europe (UN)", "United States", "Africa (UN)"}
\* a cell of a numeric column: NaN, or Num(v) holding the number v
NaN == << >>
Num(v) == << v >>
notna(cell) == cell # NaN

VARIABLES
    \* age-bracket identifiers, in the column order of the male table
    male_age_groups,
    \* age_app.py, loaded once at start-up
    male_popl_by_age_df, female_popl_by_age_df, median_df,
    \* server side: input.entity(), input.year(), input.median_year()
    entity, year, median_year,
    \* browser side: the widgets' values and the two play buttons' labels
    select_entity, slider_year, slider_median_year,
    label_play_age_distribution, label_play_median_age,
    \* messages in flight: server -> browser (update_*) and browser -> server
    update_msgs, input_msgs,
    \* reactive.Value flags
    animating_age_distribution, animating_median_age,
    \* reactive contexts of the two tick effects:
    \*   pending    - invalidated, runs in the current flush
    \*   timer      - an invalidate_later timer is armed
    \*   reads_year - the last execution read the slider's input
    age_ctx, median_ctx,
    \* history: executions of _animate_age_distribution while Playing,
    \* whether a reset happened with no user action after it, and the
    \* handler that ran last
    ticks, after_reset, handler,
    \* pva/app_2.py
    df_states, regions, top_n

vars == << male_age_groups,
           male_popl_by_age_df, female_popl_by_age_df, median_df,
           entity, year, median_year,
           select_entity, slider_year, slider_median_year,
           label_play_age_distribution, label_play_median_age,
           update_msgs, input_msgs,
           animating_age_distribution, animating_median_age,
           age_ctx, median_ctx, ticks, after_reset, handler,
           df_states, regions, top_n >>

dataVars == << male_age_groups,
              male_popl_by_age_df, female_popl_by_age_df, median_df >>
growthVars == << df_states, regions, top_n >>
ageServerVars == << year, label_play_age_distribution,
                    animating_age_distribution, age_ctx >>
medianServerVars == << median_year, label_play_median_age,
                       animating_median_age, median_ctx >>

\* ----------------------------------------------------------------- helpers
Last(s) == s[Len(s)]
SeqSet(q) == {q[i] : i \in 1..Len(q)}

\* Python's max() and min() of a non-empty list: one pass over it
RECURSIVE MaxUpTo(_, _)
MaxUpTo(s, n) == IF n = 1 THEN s[1]
                 ELSE LET m == MaxUpTo(s, n - 1) IN IF s[n] > m THEN s[n] ELSE m
Max(s) == MaxUpTo(s, Len(s))

RECURSIVE MinUpTo(_, _)
MinUpTo(s, n) == IF n = 1 THEN s[1]
                 ELSE LET m == MinUpTo(s, n - 1) IN IF s[n] < m THEN s[n] ELSE m
Min(s) == MinUpTo(s, Len(s))

Column(df, c) == [i \in 1..Len(df) |-> df[i][c]]
ColumnSet(df, c) == {df[i][c] : i \in 1..Len(df)}

\* rows (e, y) for every entity of ents and every year lo..hi, entity-major
Rows(ents, lo, hi) ==
    LET n == hi - lo + 1
    IN  [i \in 1..(Len(ents) * n) |->
            [entities |-> ents[((i - 1) \div n) + 1],
             years    |-> lo + ((i - 1) % n)]]

MedianRows(ents, lo, hi) ==
    LET n == hi - lo + 1
    IN  [i \in 1..(Len(ents) * n) |->
            LET y == lo + ((i - 1) % n)
            IN  [entities  |-> ents[((i - 1) \div n) + 1],
                 years     |-> y,
                 estimates |-> IF y > ProjectionCutoff THEN NaN ELSE Num(20),
                 medium    |-> IF y > ProjectionCutoff THEN Num(30) ELSE NaN]]

\* available_years = sorted(male_popl_by_age_df['years'].unique());
\* the year slider runs from min(available_years) to max(available_years)
available_years == ColumnSet(male_popl_by_age_df, "years")
available_entities == ColumnSet(male_popl_by_age_df, "entities")
min_year == Min(Column(male_popl_by_age_df, "years"))
max_year == Max(Column(male_popl_by_age_df, "years"))

\* ------------------------------------------------------------ age brackets
\* The bracket identifiers of the population columns, and for each the parts
\* x.split('_') gives, read as integers; the sentinel has no numeric part.
BracketParts ==
    [x \in {"0_4", "5_9", "10_14", "95_99", "100plus"} |->
        CASE x = "0_4" -> << 0, 4 >>
          [] x = "5_9" -> << 5, 9 >>
          [] x = "10_14" -> << 10, 14 >>
          [] x = "95_99" -> << 95, 99 >>
          [] x = "100plus" -> << >>]
Brackets == DOMAIN BracketParts
split(x) == BracketParts[x]

\* extract_age_groups in a session where the brackets play no part
AgeGroupsLoaded == male_age_groups = << "0_4", "5_9", "100plus" >>

\* faulty variant: the sentinel is ordered before every numeric bracket
sort_key_sentinel_first(x) == IF x # "100plus" THEN split(x)[1] ELSE 0
\* key=lambda x: int(x.split('_')[0]) if x != '100plus' else 100
sort_key(x) == IF x # "100plus" THEN split(x)[1] ELSE 100

\* x is placed behind every element whose key is not greater than its own
Insert(x, s) ==
    LET n == Cardinality({i \in 1..Len(s) : sort_key(s[i]) <= sort_key(x)})
    IN  SubSeq(s, 1, n) \o << x >> \o SubSeq(s, n + 1, Len(s))

RECURSIVE SortedUpTo(_, _)
SortedUpTo(s, n) ==
    IF n = 0 THEN << >> ELSE Insert(s[n], SortedUpTo(s, n - 1))
\* sorted(male_age_groups, key=...): stable, ascending by key
sorted(s) == SortedUpTo(s, Len(s))

\* age_label: '100+' for the sentinel, else "lower-upper"
age_label(age_group) ==
    IF age_group = "100plus" THEN "100+"
    ELSE ToString(split(age_group)[1]) \o "-" \o ToString(split(age_group)[2])

\* age_app.py: the brackets in the order the pyramid shows them
sorted_age_groups == sorted(male_age_groups)
age_labels_display ==
    [i \in 1..Len(sorted_age_groups) |-> age_label(sorted_age_groups[i])]

Controls == {"entity", "year", "median_year"}
NoMsgs == [c \in Controls |-> << >>]
InFlight(c) == Len(update_msgs[c]) + Len(input_msgs[c])
TotalInFlight == InFlight("entity") + InFlight("year") + InFlight("median_year")
Room == TotalInFlight < MaxInFlight

\* a flush is in progress while an invalidated effect has not run yet
Quiescent == ~age_ctx.pending /\ ~median_ctx.pending

\* faulty variant: the tick handler re-arms its timer although the flag is False
IdleCtx_rearm == [pending |-> FALSE, timer |-> TRUE, reads_year |-> FALSE]
\* the context of a tick effect whose last execution found the flag False
IdleCtx == [pending |-> FALSE, timer |-> FALSE, reads_year |-> FALSE]

\* invalidating a context queues its effect and cancels its timer
Invalidate(ctx) == [ctx EXCEPT !.pending = TRUE, !.timer = FALSE]

\* the median slider, its input and every median message in flight are within
\* PlayWindow of the maximum
MedianNearEnd ==
    \A v \in {median_year, slider_median_year}
             \cup {update_msgs.median_year[i].value :
                      i \in 1..Len(update_msgs.median_year)}
             \cup {input_msgs.median_year[i].value :
                      i \in 1..Len(input_msgs.median_year)} :
        v >= MedianMax - PlayWindow

\* ------------------------------------------------------------ browser side
\* A message carries the value and, as a ghost field, who wrote the value:
\* a tick, the reset handler or the user.
Msg(v, who) == [value |-> v, by |-> who]
Values(q) == {q[i].value : i \in 1..Len(q)}

\* values the user may drag a slider to
UserYears == {v \in {min_year, max_year - 1, max_year} : v >= min_year}
UserMedianYears == {MedianMin, MedianMax - 1, MedianMax}

\* the user picks another entity in the select box; the browser reports it
user_select_entity ==
    /\ Quiescent
    /\ \E e \in available_entities :
          /\ e # select_entity
          /\ select_entity' = e
          /\ input_msgs' = [input_msgs EXCEPT !.entity = Append(@, Msg(e, "user"))]
    /\ after_reset' = FALSE
    /\ handler' = "user_select_entity"
    /\ UNCHANGED << dataVars, growthVars, ageServerVars, medianServerVars,
                    entity, slider_year, slider_median_year, update_msgs, ticks >>

\* the user drags the year slider; the browser reports the new value
user_move_year ==
    /\ Quiescent
    /\ \E v \in UserYears :
          /\ v # slider_year
          /\ slider_year' = v
          /\ input_msgs' = [input_msgs EXCEPT !.year = Append(@, Msg(v, "user"))]
    /\ after_reset' = FALSE
    /\ handler' = "user_move_year"
    /\ UNCHANGED << dataVars, growthVars, ageServerVars, medianServerVars,
                    entity, select_entity, slider_median_year, update_msgs, ticks >>

\* the user drags the median-year slider to one of the values in years; the
\* browser reports the new value
move_median_year(years) ==
    /\ Quiescent
    /\ \E v \in years :
          /\ v # slider_median_year
          /\ animating_median_age => v >= MedianMax - PlayWindow
          /\ slider_median_year' = v
          /\ input_msgs' = [input_msgs EXCEPT
                               !.median_year = Append(@, Msg(v, "user"))]
    /\ after_reset' = FALSE
    /\ handler' = "user_move_median_year"
    /\ UNCHANGED << dataVars, growthVars, ageServerVars, medianServerVars,
                    entity, select_entity, slider_year, update_msgs, ticks >>

user_move_median_year == move_median_year(UserMedianYears)

\* the browser takes an update message: it sets the widget and reports the
\* value back only when the widget's value changed
Report(c, old, m) ==
    IF m.value # old THEN [input_msgs EXCEPT ![c] = Append(@, m)] ELSE input_msgs

browser_update_select ==
    /\ Quiescent /\ update_msgs.entity # << >>
    /\ select_entity' = Head(update_msgs.entity).value
    /\ update_msgs' = [update_msgs EXCEPT !.entity = Tail(@)]
    /\ input_msgs' = Report("entity", select_entity, Head(update_msgs.entity))
    /\ handler' = "browser_update_select"
    /\ UNCHANGED << dataVars, growthVars, ageServerVars, medianServerVars,
                    entity, slider_year, slider_median_year, ticks, after_reset >>

browser_update_slider_year ==
    /\ Quiescent /\ update_msgs.year # << >>
    /\ slider_year' = Head(update_msgs.year).value
    /\ update_msgs' = [update_msgs EXCEPT !.year = Tail(@)]
    /\ input_msgs' = Report("year", slider_year, Head(update_msgs.year))
    /\ handler' = "browser_update_slider_year"
    /\ UNCHANGED << dataVars, growthVars, ageServerVars, medianServerVars,
                    entity, select_entity, slider_median_year, ticks, after_reset >>

browser_update_slider_median_year ==
    /\ Quiescent /\ update_msgs.median_year # << >>
    /\ slider_median_year' = Head(update_msgs.median_year).value
    /\ update_msgs' = [update_msgs EXCEPT !.median_year = Tail(@)]
    /\ input_msgs' = Report("median_year", slider_median_year,
                            Head(update_msgs.median_year))
    /\ handler' = "browser_update_slider_median_year"
    /\ UNCHANGED << dataVars, growthVars, ageServerVars, medianServerVars,
                    entity, select_entity, slider_year, ticks, after_reset >>

\* ------------------------------------------------------------- server side
\* a reported value arrives: the input changes and every effect that read
\* it is invalidated
input_entity ==
    /\ Quiescent /\ input_msgs.entity # << >>
    /\ entity' = Head(input_msgs.entity).value
    /\ input_msgs' = [input_msgs EXCEPT !.entity = Tail(@)]
    /\ handler' = "input_entity"
    /\ UNCHANGED << dataVars, growthVars, ageServerVars, medianServerVars,
                    select_entity, slider_year, slider_median_year,
                    update_msgs, ticks, after_reset >>

input_year ==
    /\ Quiescent /\ input_msgs.year # << >>
    /\ year' = Head(input_msgs.year).value
    /\ input_msgs' = [input_msgs EXCEPT !.year = Tail(@)]
    /\ age_ctx' = IF age_ctx.reads_year THEN Invalidate(age_ctx) ELSE age_ctx
    /\ handler' = "input_year"
    /\ UNCHANGED << dataVars, growthVars, medianServerVars, entity,
                    label_play_age_distribution, animating_age_distribution,
                    select_entity, slider_year, slider_median_year,
                    update_msgs, ticks, after_reset >>

input_median_year ==
    /\ Quiescent /\ input_msgs.median_year # << >>
    /\ median_year' = Head(input_msgs.median_year).value
    /\ input_msgs' = [input_msgs EXCEPT !.median_year = Tail(@)]
    /\ median_ctx' = IF median_ctx.reads_year THEN Invalidate(median_ctx)
                     ELSE median_ctx
    /\ handler' = "input_median_year"
    /\ UNCHANGED << dataVars, growthVars, ageServerVars, entity,
                    label_play_median_age, animating_median_age,
                    select_entity, slider_year, slider_median_year,
                    update_msgs, ticks, after_reset >>

\* the timer armed by reactive.invalidate_later expires
invalidate_later_age ==
    /\ Quiescent /\ age_ctx.timer
    /\ age_ctx' = Invalidate(age_ctx)
    /\ handler' = "invalidate_later_age"
    /\ UNCHANGED << dataVars, growthVars, medianServerVars, entity, year,
                    label_play_age_distribution, animating_age_distribution,
                    select_entity, slider_year, slider_median_year,
                    update_msgs, input_msgs, ticks, after_reset >>

invalidate_later_median ==
    /\ Quiescent /\ median_ctx.timer
    /\ median_ctx' = Invalidate(median_ctx)
    /\ handler' = "invalidate_later_median"
    /\ UNCHANGED << dataVars, growthVars, ageServerVars, entity, median_year,
                    label_play_median_age, animating_median_age,
                    select_entity, slider_year, slider_median_year,
                    update_msgs, input_msgs, ticks, after_reset >>

\* @reactive.event(input.reset)
reset ==
    /\ Quiescent
    /\ update_msgs' = [update_msgs EXCEPT
          !.year        = Append(@, Msg(ResetYear, "reset")),
          !.median_year = Append(@, Msg(ResetMedianYear, "reset")),
          !.entity      = Append(@, Msg(ResetEntity, "reset"))]
    /\ animating_age_distribution' = FALSE
    /\ label_play_age_distribution' = "Play"
    /\ animating_median_age' = FALSE
    /\ label_play_median_age' = "Play"
    \* Value.set invalidates the readers only when the value changes
    /\ age_ctx' = IF animating_age_distribution THEN Invalidate(age_ctx)
                  ELSE age_ctx
    /\ median_ctx' = IF animating_median_age THEN Invalidate(median_ctx)
                     ELSE median_ctx
    /\ after_reset' = TRUE
    /\ handler' = "reset"
    /\ UNCHANGED << dataVars, growthVars, entity, year, median_year,
                    select_entity, slider_year, slider_median_year,
                    input_msgs, ticks >>

\* faulty variant: the two labels are swapped
play_label_swapped(current_state) == IF ~current_state THEN "Play" ELSE "Pause"

\* the label a play button gets from its toggle handler
play_label(current_state) == IF ~current_state THEN "Pause" ELSE "Play"

\* @reactive.event(input.play_age_distribution)
play_age_distribution ==
    /\ Quiescent
    /\ LET current_state == animating_age_distribution
       IN  /\ animating_age_distribution' = ~current_state
           /\ label_play_age_distribution' = play_label(current_state)
    /\ age_ctx' = Invalidate(age_ctx)
    /\ after_reset' = FALSE
    /\ handler' = "play_age_distribution"
    /\ UNCHANGED << dataVars, growthVars, medianServerVars, entity, year,
                    select_entity, slider_year, slider_median_year,
                    update_msgs, input_msgs, ticks >>

\* @reactive.event(input.play_median_age)
play_median_age ==
    /\ Quiescent
    /\ LET current_state == animating_median_age
       IN  /\ animating_median_age' = ~current_state
           /\ label_play_median_age' = play_label(current_state)
    /\ median_ctx' = Invalidate(median_ctx)
    /\ after_reset' = FALSE
    /\ handler' = "play_median_age"
    /\ UNCHANGED << dataVars, growthVars, ageServerVars, entity, median_year,
                    select_entity, slider_year, slider_median_year,
                    update_msgs, input_msgs, ticks >>

\* the context a tick effect is left with by its three outcomes
\*   advance: read flag and year, armed invalidate_later
\*   stop:    read flag and year, then set the flag it read: invalidated
\*   idle:    read the flag only
\* faulty variant: the tick does not call reactive.invalidate_later
AdvanceCtx_no_timer == [pending |-> FALSE, timer |-> FALSE, reads_year |-> TRUE]
AdvanceCtx == [pending |-> FALSE, timer |-> TRUE, reads_year |-> TRUE]
StopCtx == [pending |-> TRUE, timer |-> FALSE, reads_year |-> TRUE]

\* faulty variant: the age tick writes the other loop's slider
age_slider_id_median == "median_year"
\* ui.update_slider("year", value=next_year)
age_slider_id == "year"

\* faulty variant: the tick that stops the loop leaves the label "Pause"
stop_label_pause == "Pause"
\* stop branch of a tick: ui.update_action_button(..., label="Play")
stop_label == "Play"

\* faulty variant: the comparison stops the loop one position early
can_advance_early(current, bound) == current < bound - 1
\* faulty variant: the comparison lets the loop run one position past the bound
can_advance_late(current, bound) == current <= bound

\* if current_year < max_year / if current_median_year < max_median_year
can_advance(current, bound) == current < bound
\* faulty variant: the tick skips a year
next_year_skip(current_year) == current_year + 2
\* next_year = current_year + 1 / next_median_year = current_median_year + 1
next_year(current_year) == current_year + 1

\* @reactive.effect _animate_age_distribution, one execution
animate_age_distribution ==
    /\ age_ctx.pending
    /\ IF animating_age_distribution
       THEN LET current_year == year
            IN  IF can_advance(current_year, max_year)
                THEN /\ update_msgs' = [update_msgs EXCEPT ![age_slider_id] =
                            Append(@, Msg(next_year(current_year), "tick"))]
                     /\ age_ctx' = AdvanceCtx
                     /\ handler' = "animate_age_distribution:advance"
                     /\ UNCHANGED << animating_age_distribution,
                                     label_play_age_distribution >>
                ELSE /\ animating_age_distribution' = FALSE
                     /\ label_play_age_distribution' = stop_label
                     /\ age_ctx' = StopCtx
                     /\ handler' = "animate_age_distribution:stop"
                     /\ UNCHANGED update_msgs
       ELSE /\ age_ctx' = IdleCtx
            /\ handler' = "animate_age_distribution:idle"
            /\ UNCHANGED << update_msgs, animating_age_distribution,
                            label_play_age_distribution >>
    /\ UNCHANGED << dataVars, growthVars, medianServerVars, entity, year,
                    select_entity, slider_year, slider_median_year,
                    input_msgs, after_reset >>

\* @reactive.effect _animate_median_age, one execution
animate_median_age ==
    /\ median_ctx.pending
    /\ IF animating_median_age
       THEN LET current_median_year == median_year
            IN  IF can_advance(current_median_year, max_median_year)
                THEN /\ update_msgs' = [update_msgs EXCEPT !.median_year =
                            Append(@, Msg(next_year(current_median_year), "tick"))]
                     /\ median_ctx' = AdvanceCtx
                     /\ handler' = "animate_median_age:advance"
                     /\ UNCHANGED << animating_median_age,
                                     label_play_median_age >>
                ELSE /\ animating_median_age' = FALSE
                     /\ label_play_median_age' = stop_label
                     /\ median_ctx' = StopCtx
                     /\ handler' = "animate_median_age:stop"
                     /\ UNCHANGED update_msgs
       ELSE /\ median_ctx' = IdleCtx
            /\ handler' = "animate_median_age:idle"
            /\ UNCHANGED << update_msgs, animating_median_age,
                            label_play_median_age >>
    /\ UNCHANGED << dataVars, growthVars, ageServerVars, entity, median_year,
                    select_entity, slider_year, slider_median_year,
                    input_msgs, ticks, after_reset >>

\* ------------------------------------------------------------------- Init
\* the session after construction: widgets at their configured values, both
\* loops Idle, both tick effects executed once (flag False, nothing read)
SessionInit ==
    /\ entity = InitialEntity /\ select_entity = InitialEntity
    /\ year = InitialYear /\ slider_year = InitialYear
    /\ median_year = InitialMedianYear /\ slider_median_year = InitialMedianYear
    /\ label_play_age_distribution = "Play"
    /\ label_play_median_age = "Play"
    /\ update_msgs = NoMsgs /\ input_msgs = NoMsgs
    /\ animating_age_distribution = FALSE
    /\ animating_median_age = FALSE
    /\ age_ctx = IdleCtx /\ median_ctx = IdleCtx
    /\ ticks = 0 /\ after_reset = FALSE /\ handler = "init"

GrowthIdle ==
    /\ df_states = << >>
    /\ regions = {}
    /\ top_n = TopNMax

SmallMedianTable ==
    MedianRows(<< "Africa (UN)", "World" >>, ProjectionCutoff, ProjectionCutoff + 1)

Init ==
    /\ male_popl_by_age_df = Rows(<< "Chad", "World" >>, InitialYear, LastYear)
    /\ female_popl_by_age_df = Rows(<< "Chad", "World" >>, InitialYear, LastYear)
    /\ median_df = SmallMedianTable
    /\ SessionInit
    /\ AgeGroupsLoaded
    /\ GrowthIdle

\* The session under every user action.  Events that make the server send
\* are taken while fewer than MaxInFlight messages are in flight; the median
\* animation is started within PlayWindow of its end.
Next ==
    \/ Room /\ user_select_entity
    \/ Room /\ user_move_year
    \/ Room /\ user_move_median_year
    \/ browser_update_select
    \/ browser_update_slider_year
    \/ browser_update_slider_median_year
    \/ input_entity
    \/ input_year
    \/ input_median_year
    \/ Room /\ invalidate_later_age
    \/ Room /\ invalidate_later_median
    \/ Room /\ reset
    \/ (animating_age_distribution \/ Room) /\ play_age_distribution
    \/ (animating_median_age \/ (Room /\ MedianNearEnd)) /\ play_median_age
    \/ animate_age_distribution /\ UNCHANGED ticks
    \/ animate_median_age

Spec == Init /\ [][Next]_vars

\* ------------------------------------------------ the tick-count scenario
\* The data set begins in 1950 and ends in ScenarioLastYear (the slider's range
\* depends on its first and last year only, so the table holds the rows of
\* these two years); the user presses Play on the age
\* animation once, at 1950, and then does nothing: no toggle, no reset, no
\* slider change.  ticks counts the executions of the tick handler while
\* Playing.  Timers stop expiring after TickCap ticks.
TickSpan == max_year - InitialYear
TickCap == TickSpan + ExtraTicks

TicksTable ==
    Rows(<< "World" >>, InitialYear, InitialYear)
        \o Rows(<< "World" >>, ScenarioLastYear, ScenarioLastYear)

TicksInit ==
    /\ male_popl_by_age_df = TicksTable
    /\ female_popl_by_age_df = TicksTable
    /\ median_df = SmallMedianTable
    /\ SessionInit
    /\ AgeGroupsLoaded
    /\ GrowthIdle

TicksNext ==
    \/ (ticks = 0 /\ ~animating_age_distribution) /\ play_age_distribution
    \/ browser_update_slider_year
    \/ input_year
    \/ (Room /\ ticks < TickCap) /\ invalidate_later_age
    \/ animate_age_distribution
          /\ ticks' = IF animating_age_distribution THEN ticks + 1 ELSE ticks

SpecTicks == TicksInit /\ [][TicksNext]_vars

\* the newest position the age loop has been given: the last slider update
\* sent, or the slider's value when every update has been taken
LatestYear ==
    IF update_msgs.year # << >> THEN Last(update_msgs.year).value ELSE slider_year

\* C1, as stated: started Playing at 1950 with bound 2023 and no user action,
\* after exactly 73 ticks (each of which advanced, so that the position is
\* 2023) the loop has transitioned to Idle.
C1_IdleAfterSpanTicks ==
    (ticks = TickSpan /\ LatestYear = max_year) => ~animating_age_distribution

\* C1, amended: through the first 73 ticks the loop stays Playing and the
\* position written is at most 1950 + ticks and never beyond 2023; the loop
\* is Idle only after a further tick, the 74th at the earliest, that read
\* position 2023 and wrote nothing: the position is then exactly 2023.
C1_IdleAtTickAfterSpan ==
    /\ (ticks >= 1 /\ ticks <= TickSpan) => animating_age_distribution
    /\ LatestYear <= InitialYear + ticks
    /\ LatestYear <= max_year
    /\ (ticks >= 1 /\ ~animating_age_distribution) =>
          /\ ticks >= TickSpan + 1
          /\ year = max_year
          /\ LatestYear = max_year

\* the loop has stopped at exactly the 74th tick, at position 2023
C1_Witness ==
    /\ ticks = TickSpan + 1
    /\ ~animating_age_distribution
    /\ year = max_year /\ slider_year = max_year

\* C3, as stated: no tick is dropped or coalesced: while Playing, n executed
\* ticks from position 1950 leave the position at exactly 1950 + n.
C3_NoTickCoalesced ==
    (animating_age_distribution /\ ticks <= TickSpan) =>
        LatestYear = InitialYear + ticks

\* ------------------------------------------------------------------ reset
\* where a control settles once every message in flight has been taken: the
\* last update sent to the browser, else the widget's value; on the server the
\* last report on its way, else the input's value
Settles(c, widget, input, v) ==
    IF update_msgs[c] # << >>
    THEN Last(update_msgs[c]).value = v
    ELSE /\ widget = v
         /\ IF input_msgs[c] # << >> THEN Last(input_msgs[c]).value = v
            ELSE input = v

\* C2: after the reset handler, from whatever state it was run in and for as
\* long as the user does nothing else, both loops are Idle with label "Play",
\* and entity, year and median year settle at the widgets' initial values
\* ("World", 1950, 1950): no tick that runs after the reset moves them away.
C2_ResetRestoresDefaults ==
    after_reset =>
        /\ ~animating_age_distribution /\ ~animating_median_age
        /\ label_play_age_distribution = "Play"
        /\ label_play_median_age = "Play"
        /\ Settles("year", slider_year, year, InitialYear)
        /\ Settles("median_year", slider_median_year, median_year,
                   InitialMedianYear)
        /\ Settles("entity", select_entity, entity, InitialEntity)

\* the reset handler has just run while the age loop was Playing with a
\* tick's slider update still in flight
C2_Witness ==
    /\ handler = "reset" /\ after_reset
    /\ age_ctx.pending
    /\ Len(update_msgs.year) >= 2
    /\ Head(update_msgs.year).by = "tick"

\* ------------------------------------------------------- tick at the bound
\* C4: a tick that runs while Playing with the position at (or past) the
\* bound - max(available_years) for the age loop, 2100 for the median loop -
\* sets the flag to Idle and the label to "Play", leaves the position as it
\* is (no slider update is sent) and arms no timer.
C4_TickAtBoundStops ==
    [][ /\ (animate_age_distribution /\ animating_age_distribution
               /\ year >= max_year) =>
              /\ ~animating_age_distribution'
              /\ label_play_age_distribution' = "Play"
              /\ UNCHANGED << year, slider_year, update_msgs, input_msgs >>
              /\ ~age_ctx'.timer
        /\ (animate_median_age /\ animating_median_age
               /\ median_year >= MedianMax) =>
              /\ ~animating_median_age'
              /\ label_play_median_age' = "Play"
              /\ UNCHANGED << median_year, slider_median_year,
                              update_msgs, input_msgs >>
              /\ ~median_ctx'.timer
      ]_vars

\* the median loop has just been stopped by a tick at 2100
C4_Witness ==
    /\ handler = "animate_median_age:stop"
    /\ median_year = MedianMax
    /\ ~animating_median_age /\ label_play_median_age = "Play"

\* ------------------------------------------------------------------ toggle
\* C5: a toggle flips its loop's flag once and sets the label to "Pause" when
\* the loop is now Playing and to "Play" when it is Idle; the toggle leaves the
\* tick handler queued, and while a tick handler is queued the only steps are
\* executions of tick handlers: it runs before any further user action.
C5_ToggleFlipsAndStartsTick ==
    [][ /\ play_age_distribution =>
              /\ animating_age_distribution' = ~animating_age_distribution
              /\ label_play_age_distribution' =
                    IF animating_age_distribution' THEN "Pause" ELSE "Play"
              /\ age_ctx'.pending
        /\ play_median_age =>
              /\ animating_median_age' = ~animating_median_age
              /\ label_play_median_age' =
                    IF animating_median_age' THEN "Pause" ELSE "Play"
              /\ median_ctx'.pending
        /\ age_ctx.pending =>
              \/ animate_age_distribution
              \/ animate_median_age /\ age_ctx'.pending
        /\ median_ctx.pending =>
              \/ animate_median_age
              \/ animate_age_distribution /\ median_ctx'.pending
      ]_vars

\* the age loop has just been toggled from Idle to Playing
C5_Witness ==
    /\ handler = "play_age_distribution"
    /\ animating_age_distribution
    /\ label_play_age_distribution = "Pause"
    /\ age_ctx.pending

\* --------------------------------------------------- implicit cancellation
\* messages in flight for a control whose value a tick wrote
TickMsgs(c) ==
    Cardinality({i \in 1..Len(update_msgs[c]) : update_msgs[c][i].by = "tick"})
    + Cardinality({i \in 1..Len(input_msgs[c]) : input_msgs[c][i].by = "tick"})

\* C6, as stated: once a loop is Idle its position (the slider and its input)
\* is changed only by user or reset actions.
C6_IdlePositionOnlyUserOrReset ==
    [][ /\ (~animating_age_distribution /\ year' # year) =>
               Head(input_msgs.year).by \in {"user", "reset"}
        /\ (~animating_age_distribution /\ slider_year' # slider_year) =>
               \/ user_move_year
               \/ Head(update_msgs.year).by = "reset"
        /\ (~animating_median_age /\ median_year' # median_year) =>
               Head(input_msgs.median_year).by \in {"user", "reset"}
        /\ (~animating_median_age /\ slider_median_year' # slider_median_year) =>
               \/ user_move_median_year
               \/ Head(update_msgs.median_year).by = "reset"
      ]_vars

\* C6, amended: a tick handler invoked while its flag is Idle changes neither
\* the position nor the flag nor the label, sends nothing and arms no timer;
\* and while a loop is Idle no slider update of a tick is added to the
\* messages in flight: the position is then changed only by user or reset
\* actions and by the updates that ticks sent before the loop became Idle.
C6_IdleTickChangesNothing ==
    [][ /\ (animate_age_distribution /\ ~animating_age_distribution) =>
              /\ UNCHANGED << year, slider_year, animating_age_distribution,
                              label_play_age_distribution,
                              update_msgs, input_msgs >>
              /\ ~age_ctx'.timer /\ ~age_ctx'.pending
        /\ (animate_median_age /\ ~animating_median_age) =>
              /\ UNCHANGED << median_year, slider_median_year,
                              animating_median_age, label_play_median_age,
                              update_msgs, input_msgs >>
              /\ ~median_ctx'.timer /\ ~median_ctx'.pending
        /\ ~animating_age_distribution => TickMsgs("year")' <= TickMsgs("year")
        /\ ~animating_median_age =>
              TickMsgs("median_year")' <= TickMsgs("median_year")
      ]_vars

\* the age tick handler has just run with the flag Idle while a slider update
\* of an earlier tick is still in flight
C6_Witness ==
    /\ handler = "animate_age_distribution:idle"
    /\ ~animating_age_distribution
    /\ TickMsgs("year") >= 1

Untouched(c, widget, input, v) ==
    /\ widget = v /\ input = v
    /\ update_msgs[c] = << >> /\ input_msgs[c] = << >>

Unattended ==
    /\ ~animating_age_distribution /\ ~animating_median_age
    /\ Untouched("year", slider_year, year, InitialYear)
    /\ Untouched("median_year", slider_median_year, median_year,
                 InitialMedianYear)

RunNext ==
    \/ Unattended /\ play_age_distribution
    \/ Unattended /\ play_median_age
    \/ browser_update_slider_year
    \/ browser_update_slider_median_year
    \/ input_year
    \/ input_median_year
    \/ Room /\ invalidate_later_age
    \/ Room /\ invalidate_later_median
    \/ animate_age_distribution /\ UNCHANGED ticks
    \/ animate_median_age

SpecRun ==
    /\ Init /\ [][RunNext]_vars
    /\ SF_vars(browser_update_slider_year)
    /\ SF_vars(browser_update_slider_median_year)
    /\ SF_vars(input_year)
    /\ SF_vars(input_median_year)
    /\ SF_vars(Room /\ invalidate_later_age)
    /\ SF_vars(Room /\ invalidate_later_median)
    /\ WF_vars(animate_age_distribution /\ UNCHANGED ticks)
    /\ WF_vars(animate_median_age)

\* C7: a loop that is Playing and left alone eventually is Idle; the step that
\* makes it Idle finds the position at the bound (max(available_years), 2100);
\* and while it is Playing a tick is always scheduled: its timer is armed or
\* its handler is queued.
C7_AutoStop ==
    /\ [](animating_age_distribution => (age_ctx.timer \/ age_ctx.pending))
    /\ [](animating_median_age => (median_ctx.timer \/ median_ctx.pending))
    /\ [][ /\ (animating_age_distribution /\ ~animating_age_distribution') =>
                 (year = max_year /\ slider_year = max_year)
           /\ (animating_median_age /\ ~animating_median_age') =>
                 (median_year = MedianMax /\ slider_median_year = MedianMax)
         ]_vars
    /\ (animating_age_distribution ~> ~animating_age_distribution)
    /\ (animating_median_age ~> ~animating_median_age)

\* the median loop has run unattended from 1950 to 2100 and stopped
C7_Witness ==
    /\ handler = "animate_median_age:stop"
    /\ ~animating_median_age
    /\ median_year = MedianMax /\ slider_median_year = MedianMax

\* ------------------------------------------------------ filter and render
empty(df) == df = << >>
\* df[col].iloc[0]: the first row, an IndexError on an empty frame
IndexError == [error |-> "IndexError"]
iloc0(df) == IF df = << >> THEN IndexError ELSE df[1]

\* faulty variant: the two conditions of the filter are joined by | instead of &
selected_or(row, e, y) == row.entities = e \/ row.years = y
\* (df['entities'] == input.entity()) & (df['years'] == input.year())
selected(row, e, y) == row.entities = e /\ row.years = y

\* @reactive.calc get_population_data
get_population_data ==
    LET male_data == SelectSeq(male_popl_by_age_df,
                               LAMBDA r : selected(r, entity, year))
        female_data == SelectSeq(female_popl_by_age_df,
                                 LAMBDA r : selected(r, entity, year))
    IN  << male_data, female_data >>

\* faulty variant: the projection takes priority over the estimate
median_age_combined_medium_first(row) ==
    IF notna(row.medium) THEN row.medium ELSE row.estimates

\* np.where(estimates.notna(), estimates, medium)
median_age_combined(row) ==
    IF notna(row.estimates) THEN row.estimates ELSE row.medium

\* filtered_df of get_median_data: the rows of the four regions, with the
\* median_age_combined column added
median_filtered_df ==
    LET in_regions == SelectSeq(median_df,
                                LAMBDA r : r.entities \in median_regions)
    IN  [i \in 1..Len(in_regions) |->
            [entities |-> in_regions[i].entities,
             years |-> in_regions[i].years,
             estimates |-> in_regions[i].estimates,
             medium |-> in_regions[i].medium,
             median_age_combined |-> median_age_combined(in_regions[i])]]

\* faulty variant: the last historical year counts as a projection
is_projection_inclusive(selected_year) == selected_year >= ProjectionCutoff
\* input.median_year() > 2023
is_projection(selected_year) == selected_year > ProjectionCutoff

\* @reactive.calc get_median_data
get_median_data ==
    LET year_data == SelectSeq(median_filtered_df,
                               LAMBDA r : r.years = median_year)
    IN  << year_data, is_projection(median_year) >>

\* @render.express projection_info: the note beside the play button
projection_info ==
    IF median_year > ProjectionCutoff THEN "Projektion" ELSE "Historische Daten"

NoPopulationText == "Keine Daten verfügbar für die ausgewählte Kombination"
NoMedianText == "Keine Daten verfügbar für das ausgewählte Jahr"

\* faulty variant: the placeholder is drawn only when both tables have no row
no_population_data_both(male_data, female_data) ==
    empty(male_data) /\ empty(female_data)
\* if male_data.empty or female_data.empty
no_population_data(male_data, female_data) ==
    empty(male_data) \/ empty(female_data)

\* @render.plot age_distribution_plot: the placeholder text, or the pyramid
\* drawn from the first row of each subset
age_distribution_plot ==
    LET male_data == get_population_data[1]
        female_data == get_population_data[2]
    IN  IF no_population_data(male_data, female_data)
        THEN [kind |-> "text", text |-> NoPopulationText]
        ELSE [kind |-> "barh",
              male |-> iloc0(male_data), female |-> iloc0(female_data),
              title |-> << entity, year >>,
              groups |-> sorted_age_groups,
              labels |-> age_labels_display]

\* age_app_shiny.py, @render_widget age_distribution_render: the placeholder
\* annotation, or one record per bracket in the order of male_age_groups
age_distribution_render ==
    LET male_data == get_population_data[1]
        female_data == get_population_data[2]
    IN  IF empty(male_data) \/ empty(female_data)
        THEN [kind |-> "text", text |-> NoPopulationText]
        ELSE [kind |-> "bar",
              male |-> iloc0(male_data), female |-> iloc0(female_data),
              groups |-> male_age_groups,
              labels |-> [i \in 1..Len(male_age_groups) |->
                             age_label(male_age_groups[i])]]

\* colors["regions"]
region_palette ==
    [e \in {"Africa (UN)", "Asia (UN)", "Europe (UN)", "United States"} |->
        CASE e = "Africa (UN)" -> "#1f77b4"
          [] e = "Asia (UN)" -> "#ff7f0e"
          [] e = "Europe (UN)" -> "#2ca02c"
          [] e = "United States" -> "#d62728"]

\* faulty variant: colors["regions"][entity], a KeyError for a missing entity
bar_color_subscript(e) ==
    IF e \in DOMAIN region_palette THEN region_palette[e] ELSE "KeyError"
\* colors["regions"].get(entity, "#cccccc")
bar_color(e) ==
    IF e \in DOMAIN region_palette THEN region_palette[e] ELSE "#cccccc"

\* @render.plot median_age_plot: the placeholder text, or one bar per row
median_age_plot ==
    LET year_data == get_median_data[1]
        projection == get_median_data[2]
    IN  IF empty(year_data)
        THEN [kind |-> "text", text |-> NoMedianText]
        ELSE [kind |-> "bar",
              x |-> Column(year_data, "entities"),
              height |-> Column(year_data, "median_age_combined"),
              color |-> [i \in 1..Len(year_data) |->
                            bar_color(year_data[i].entities)],
              first |-> iloc0(year_data),
              projection |-> projection]

\* The tables are drawn from master lists: every table is the master list
\* with rows left out, at most MaxRows rows kept, in the master's order.  The
\* population master list holds one (entity, year) pair twice.
PopulationMaster ==
    Rows(<< "World" >>, InitialYear, InitialYear + 1)
        \o Rows(<< "Chad", "World" >>, InitialYear, InitialYear)
        \o Rows(<< "Chad" >>, InitialYear + 1, InitialYear + 1)

MedianMaster ==
    << [entities |-> "Africa (UN)", years |-> MedianMin,
        estimates |-> Num(19), medium |-> NaN],
       [entities |-> "World", years |-> MedianMax - 1,
        estimates |-> NaN, medium |-> Num(33)],
       [entities |-> "Europe (UN)", years |-> MedianMax,
        estimates |-> NaN, medium |-> NaN] >>

RECURSIVE Pick(_, _, _)
\* the rows of master at the positions in keep, in order
Pick(master, keep, i) ==
    IF i > Len(master) THEN << >>
    ELSE (IF i \in keep THEN << master[i] >> ELSE << >>)
             \o Pick(master, keep, i + 1)

Tables(master) ==
    {Pick(master, keep, 1) :
        keep \in {k \in SUBSET (1..Len(master)) : Cardinality(k) <= MaxRows}}

RenderInit ==
    /\ male_popl_by_age_df \in
          {t \in Tables(PopulationMaster) :
              /\ InitialEntity \in ColumnSet(t, "entities")
              /\ InitialYear \in ColumnSet(t, "years")}
    /\ female_popl_by_age_df \in Tables(PopulationMaster)
    /\ median_df \in Tables(MedianMaster)
    /\ SessionInit
    /\ AgeGroupsLoaded
    /\ GrowthIdle

\* a render is a function of the inputs alone, so one user action at a time
\* is followed until the server has received it
Settled == TotalInFlight = 0

RenderNext ==
    \/ Settled /\ user_select_entity
    \/ Settled /\ user_move_year
    \/ Settled /\ user_move_median_year
    \/ input_entity
    \/ input_year
    \/ input_median_year

SpecRender == RenderInit /\ [][RenderNext]_vars

Matching(df, e, y) ==
    Cardinality({i \in 1..Len(df) : df[i].entities = e /\ df[i].years = y})

\* C9: for every selection the filter returns the rows whose entity and year
\* both equal the selection, all of them and no other; when the male or the
\* female subset is empty the pyramid is the "no data" text, when the
\* region-restricted median subset of the year is empty the median chart is
\* the "no data" text, and no render indexes into an empty subset.
C9_EmptyResultPlaceholder ==
    LET male_data == get_population_data[1]
        female_data == get_population_data[2]
        year_data == get_median_data[1]
    IN  /\ \A i \in 1..Len(male_data) :
              male_data[i].entities = entity /\ male_data[i].years = year
        /\ \A i \in 1..Len(female_data) :
              female_data[i].entities = entity /\ female_data[i].years = year
        /\ Len(male_data) = Matching(male_popl_by_age_df, entity, year)
        /\ Len(female_data) = Matching(female_popl_by_age_df, entity, year)
        /\ \A i \in 1..Len(year_data) :
              /\ year_data[i].years = median_year
              /\ year_data[i].entities \in median_regions
        /\ Len(year_data) =
              Cardinality({i \in 1..Len(median_df) :
                              /\ median_df[i].years = median_year
                              /\ median_df[i].entities \in median_regions})
        /\ (male_data = << >> \/ female_data = << >>) =>
              age_distribution_plot = [kind |-> "text", text |-> NoPopulationText]
        /\ age_distribution_plot.kind = "barh" =>
              /\ age_distribution_plot.male # IndexError
              /\ age_distribution_plot.female # IndexError
        /\ year_data = << >> =>
              median_age_plot = [kind |-> "text", text |-> NoMedianText]
        /\ median_age_plot.kind = "bar" => median_age_plot.first # IndexError

\* the user has moved to a selection that has a male row and no female row,
\* and to a median year whose only row is outside the four regions
C9_Witness ==
    /\ handler \in {"input_entity", "input_year", "input_median_year"}
    /\ get_population_data[1] # << >>
    /\ get_population_data[2] = << >>
    /\ female_popl_by_age_df # << >>
    /\ age_distribution_plot.kind = "text"
    /\ median_year # InitialMedianYear
    /\ \E i \in 1..Len(median_df) : median_df[i].years = median_year
    /\ median_age_plot.kind = "text"

\* ------------------------------------------- pva/app_2.py: growth dashboard
\* change_2010_2019 is kept in hundredths of a percent
RegionNames == {"Northeast", "Midwest", "South", "West"}

StatesMaster ==
    << [NAME |-> "Texas", REGION_NAME |-> "South", change_2010_2019 |-> 1515],
       [NAME |-> "Ohio", REGION_NAME |-> "Midwest", change_2010_2019 |-> 132],
       [NAME |-> "West Virginia", REGION_NAME |-> "South",
        change_2010_2019 |-> -329],
       [NAME |-> "Vermont", REGION_NAME |-> "Northeast",
        change_2010_2019 |-> -28] >>

\* the user checks or unchecks one box of the "regions" checkbox group
set_regions ==
    /\ \E r \in RegionNames :
          regions' = IF r \in regions THEN regions \ {r} ELSE regions \cup {r}
    /\ handler' = "set_regions"
    /\ UNCHANGED << dataVars, ageServerVars, medianServerVars, entity,
                    median_year, select_entity, slider_year,
                    slider_median_year, update_msgs, input_msgs, ticks,
                    after_reset, df_states, top_n >>

\* the user moves the "top_n" slider
set_top_n ==
    /\ \E n \in TopNMin..TopNMax : n # top_n /\ top_n' = n
    /\ handler' = "set_top_n"
    /\ UNCHANGED << dataVars, ageServerVars, medianServerVars, entity,
                    median_year, select_entity, slider_year,
                    slider_median_year, update_msgs, input_msgs, ticks,
                    after_reset, df_states, regions >>

\* df_states[df_states['REGION_NAME'].isin(input.regions())]
filtered_df == SelectSeq(df_states, LAMBDA r : r.REGION_NAME \in regions)

RECURSIVE Sum(_, _)
Sum(col, i) == IF i > Len(col) THEN 0 ELSE col[i] + Sum(col, i + 1)

\* Series.mean(): NaN for an empty column, else the quotient sum / count,
\* kept as the pair << sum, count >>
mean(col) == IF Len(col) = 0 THEN NaN ELSE << Sum(col, 1), Len(col) >>

Abs(n) == IF n < 0 THEN 0 - n ELSE n

\* n / d rounded to the nearest integer, a tie to the even one (n, d >= 0)
RoundHalfEven(n, d) ==
    LET q == n \div d
        r == n % d
    IN  IF 2 * r < d THEN q
        ELSE IF 2 * r > d THEN q + 1
        ELSE IF q % 2 = 0 THEN q ELSE q + 1

\* format(avg, ".1f"): "nan" for NaN, else sign, integer part, one decimal
format_1f(avg) ==
    IF avg = NaN THEN "nan"
    ELSE LET tenths == RoundHalfEven(Abs(avg[1]), 10 * avg[2])
         IN  (IF avg[1] < 0 THEN "-" ELSE "")
                 \o ToString(tenths \div 10) \o "." \o ToString(tenths % 10)

\* @render.express avg_growth: f"{avg:.1f}%"
avg_growth ==
    format_1f(mean(Column(filtered_df, "change_2010_2019"))) \o "%"

RECURSIVE nlargest(_, _)
\* DataFrame.nlargest(n, 'change_2010_2019'): the n rows of the largest
\* change, largest first, the earlier row first among equal ones
nlargest(n, df) ==
    IF n = 0 \/ df = << >> THEN << >>
    ELSE LET top == Max(Column(df, "change_2010_2019"))
             i == CHOOSE k \in 1..Len(df) :
                      /\ df[k].change_2010_2019 = top
                      /\ \A j \in 1..(k - 1) : df[j].change_2010_2019 # top
             rest == [j \in 1..(Len(df) - 1) |->
                         IF j < i THEN df[j] ELSE df[j + 1]]
         IN  << df[i] >> \o nlargest(n - 1, rest)

\* @render_widget population_widget: the rows drawn as bars
population_widget == nlargest(top_n, filtered_df)

GrowthInit ==
    /\ male_popl_by_age_df = Rows(<< "World" >>, InitialYear, InitialYear)
    /\ female_popl_by_age_df = male_popl_by_age_df
    /\ median_df = << >>
    /\ SessionInit
    /\ AgeGroupsLoaded
    /\ df_states \in {t \in Tables(StatesMaster) : t # << >>}
    /\ regions = RegionNames
    /\ top_n = TopNMax

GrowthNext ==
    \/ set_regions
    \/ set_top_n

SpecGrowth == GrowthInit /\ [][GrowthNext]_vars

\* C10: when the region selection leaves no row of the state table, the
\* average-growth output is a "no data" output: it is never the text of a
\* number-formatted NaN, "nan%".
C10_EmptyMeanNotNumberFormatted ==
    filtered_df = << >> => avg_growth # "nan%"

\* ---------------------------------------------------- median-age chart
\* rows of the median table: an estimate only, both columns, the projection
\* only, neither, and a row of an entity outside the four regions
CombinedMaster ==
    << [entities |-> "Africa (UN)", years |-> MedianMin,
        estimates |-> Num(19), medium |-> NaN],
       [entities |-> "Asia (UN)", years |-> ProjectionCutoff,
        estimates |-> Num(31), medium |-> Num(32)],
       [entities |-> "Africa (UN)", years |-> ProjectionCutoff,
        estimates |-> NaN, medium |-> Num(27)],
       [entities |-> "Europe (UN)", years |-> ProjectionCutoff + 1,
        estimates |-> NaN, medium |-> Num(44)],
       [entities |-> "United States", years |-> MedianMax,
        estimates |-> NaN, medium |-> NaN],
       [entities |-> "World", years |-> MedianMax,
        estimates |-> NaN, medium |-> Num(33)] >>

\* the years the median slider is dragged to: both ends of its range and
\* the two years around the end of the historical data
MedianYearsOfInterest ==
    {MedianMin, ProjectionCutoff, ProjectionCutoff + 1, MedianMax}

MedianInit ==
    /\ male_popl_by_age_df = Rows(<< "World" >>, InitialYear, InitialYear)
    /\ female_popl_by_age_df = male_popl_by_age_df
    /\ median_df \in Tables(CombinedMaster)
    /\ SessionInit
    /\ AgeGroupsLoaded
    /\ GrowthIdle

MedianNext ==
    \/ Settled /\ move_median_year(MedianYearsOfInterest)
    \/ input_median_year

SpecMedian == MedianInit /\ [][MedianNext]_vars

\* C11: in every row of the region-restricted median table the combined
\* value is the estimate when the estimate is present, and the medium
\* projection otherwise; it is missing only when both are missing.
C11_CombinedMetric ==
    /\ Len(median_filtered_df) =
          Cardinality({i \in 1..Len(median_df) :
                          median_df[i].entities \in median_regions})
    /\ \A i \in 1..Len(median_filtered_df) :
          LET row == median_filtered_df[i]
          IN  /\ row.estimates # NaN => row.median_age_combined = row.estimates
              /\ row.estimates = NaN => row.median_age_combined = row.medium
              /\ row.median_age_combined = NaN <=>
                    (row.estimates = NaN /\ row.medium = NaN)
    /\ \A i \in 1..Len(get_median_data[1]) :
          get_median_data[1][i].median_age_combined \in
              {median_filtered_df[j].median_age_combined :
                  j \in {k \in 1..Len(median_filtered_df) :
                            median_filtered_df[k].years = median_year}}

\* the chart of a year is drawn from a row that has both columns, next to a
\* table row that has the projection only
C11_Witness ==
    /\ handler = "input_median_year"
    /\ \E i \in 1..Len(get_median_data[1]) :
          LET row == get_median_data[1][i]
          IN  /\ row.estimates # NaN /\ row.medium # NaN
              /\ row.estimates # row.medium
              /\ row.median_age_combined = row.estimates
    /\ \E i \in 1..Len(median_filtered_df) :
          /\ median_filtered_df[i].estimates = NaN
          /\ median_filtered_df[i].median_age_combined # NaN

\* C12: for every selected median year the is-projection flag of
\* get_median_data and the note beside the play button say "projection"
\* exactly when the year is after 2023, whatever rows the table holds for
\* that year and whichever column their combined value came from.
C12_IsProjectionFlag ==
    /\ median_year \in MedianMin..MedianMax
    /\ get_median_data[2] <=> (median_year > 2023)
    /\ projection_info = "Projektion" <=> (median_year > 2023)
    /\ projection_info = "Historische Daten" <=> (median_year <= 2023)
    /\ median_age_plot.kind = "bar" =>
          (median_age_plot.projection <=> (median_year > 2023))

\* the first projected year is selected and the table has no row for it
C12_Witness ==
    /\ handler = "input_median_year"
    /\ median_year = 2024
    /\ get_median_data[1] = << >>
    /\ median_df # << >>
    /\ get_median_data[2]
    /\ projection_info = "Projektion"

\* ------------------------------------------------------- bracket order
\* every column order of at most MaxBrackets distinct brackets
BracketOrders ==
    UNION {{q \in [1..n -> Brackets] :
               \A i, j \in 1..n : i # j => q[i] # q[j]} : n \in 1..MaxBrackets}

BracketsInit ==
    /\ male_age_groups \in BracketOrders
    /\ male_popl_by_age_df =
          Rows(<< "Chad", "World" >>, InitialYear, InitialYear + 1)
    /\ female_popl_by_age_df = Rows(<< "World" >>, InitialYear, InitialYear + 1)
    /\ median_df = << >>
    /\ SessionInit
    /\ GrowthIdle

BracketsNext ==
    \/ Settled /\ user_select_entity
    \/ Settled /\ user_move_year
    \/ input_entity
    \/ input_year

SpecBrackets == BracketsInit /\ [][BracketsNext]_vars

\* the lower bound a bracket is ordered by, the sentinel counting as 100
LowerBound(x) == IF x = "100plus" THEN 100 ELSE BracketParts[x][1]
Ascending(groups) ==
    \A i, j \in 1..Len(groups) : i < j => LowerBound(groups[i]) <= LowerBound(groups[j])
IsPermutation(s, t) ==
    /\ Len(s) = Len(t)
    /\ \A x \in Brackets :
          Cardinality({i \in 1..Len(s) : s[i] = x})
              = Cardinality({i \in 1..Len(t) : t[i] = x})

\* C13, as stated: whatever the column order of the table, both pyramid
\* renderers (age_app.py and age_app_shiny.py) show the brackets in ascending
\* order of their lower bound, "100plus" as 100, and show a permutation of
\* the input brackets.
C13_BracketOrder ==
    /\ age_distribution_plot.kind = "barh" =>
          /\ Ascending(age_distribution_plot.groups)
          /\ IsPermutation(age_distribution_plot.groups, male_age_groups)
    /\ age_distribution_render.kind = "bar" =>
          /\ Ascending(age_distribution_render.groups)
          /\ IsPermutation(age_distribution_render.groups, male_age_groups)

\* C13 for age_app.py alone: the pyramid of age_distribution_plot shows a
\* permutation of the brackets in ascending order of lower bound, labelled
\* "lower-upper" or "100+".
C13_SortedInAgeApp ==
    age_distribution_plot.kind = "barh" =>
        /\ Ascending(age_distribution_plot.groups)
        /\ IsPermutation(age_distribution_plot.groups, male_age_groups)
        /\ Len(age_distribution_plot.labels) = Len(male_age_groups)
        /\ male_age_groups \in {<< "0_4", "5_9", "100plus" >>,
                                << "100plus", "5_9", "0_4" >>,
                                << "5_9", "100plus", "0_4" >>} =>
              /\ age_distribution_plot.groups = << "0_4", "5_9", "100plus" >>
              /\ age_distribution_plot.labels = << "0-4", "5-9", "100+" >>

\* a pyramid is drawn from a table whose columns are in descending order
C13_Witness ==
    /\ handler = "input_year"
    /\ male_age_groups = << "100plus", "5_9", "0_4" >>
    /\ age_distribution_plot.kind = "barh"
    /\ age_distribution_plot.labels = << "0-4", "5-9", "100+" >>

\* the color the fixed palette gives an entity, the neutral one otherwise
ExpectedColor(e) ==
    CASE e = "Africa (UN)" -> "#1f77b4"
      [] e = "Asia (UN)" -> "#ff7f0e"
      [] e = "Europe (UN)" -> "#2ca02c"
      [] e = "United States" -> "#d62728"
      [] OTHER -> "#cccccc"

\* C14: the median chart has one bar color per rendered row, in row order:
\* the palette color of the row's entity, or "#cccccc" for an entity that is
\* not in the palette; the lookup gives a color for every entity of the
\* table, in the palette or not.
C14_PaletteFallback ==
    /\ median_age_plot.kind = "bar" =>
          /\ Len(median_age_plot.color) = Len(get_median_data[1])
          /\ Len(median_age_plot.color) = Len(median_age_plot.x)
          /\ \A i \in 1..Len(median_age_plot.color) :
                median_age_plot.color[i] = ExpectedColor(median_age_plot.x[i])
    /\ \A i \in 1..Len(median_df) :
          /\ bar_color(median_df[i].entities) = ExpectedColor(median_df[i].entities)
          /\ bar_color(median_df[i].entities) # "KeyError"

\* a chart with a bar is drawn while the table holds a row of an entity that
\* is not in the palette
C14_Witness ==
    /\ handler = "input_median_year"
    /\ median_age_plot.kind = "bar"
    /\ median_age_plot.color # << >>
    /\ \E i \in 1..Len(median_df) :
          /\ median_df[i].entities \notin DOMAIN region_palette
          /\ bar_color(median_df[i].entities) = "#cccccc"

\* ------------------------------------------------------- position bound
\* every value a position holds or is about to be given: the input, the
\* widget and the messages in flight
YearPositions ==
    {year, slider_year} \cup Values(update_msgs.year) \cup Values(input_msgs.year)
MedianYearPositions ==
    {median_year, slider_median_year} \cup Values(update_msgs.median_year)
        \cup Values(input_msgs.median_year)

PositionsInRange ==
    /\ \A v \in YearPositions : min_year <= v /\ v <= max_year
    /\ \A v \in MedianYearPositions : MedianMin <= v /\ v <= max_median_year

\* C15, as stated: under toggles, ticks, resets and in-range user slider
\* changes the position of each loop stays within [min, B], no tick writes a
\* value above B, and no value written by a tick decreases the position:
\* neither the slider nor the input goes down when a tick's value is taken.
C15_PositionBound ==
    [][ /\ PositionsInRange /\ PositionsInRange'
        /\ (browser_update_slider_year /\ Head(update_msgs.year).by = "tick")
              => slider_year' >= slider_year
        /\ (input_year /\ Head(input_msgs.year).by = "tick") => year' >= year
        /\ (browser_update_slider_median_year
               /\ Head(update_msgs.median_year).by = "tick")
              => slider_median_year' >= slider_median_year
        /\ (input_median_year /\ Head(input_msgs.median_year).by = "tick")
              => median_year' >= median_year
      ]_vars

\* C15, the part that holds: every position, and every value on its way to
\* one, is within the slider's range [min, B]; in particular no tick writes
\* a value above B.
C15_PositionInRange == PositionsInRange

\* a tick has just written the bound itself
C15_Witness ==
    /\ handler = "animate_age_distribution:advance"
    /\ update_msgs.year # << >>
    /\ Last(update_msgs.year) = Msg(max_year, "tick")
    /\ year = max_year - 1

\* ------------------------------------------------- label/state agreement
\* C16: after every handler (toggle, tick, reset), from the initial state
\* (Idle, "Play") on, the label the server has given each play button is
\* "Pause" exactly when that loop's flag is Playing and "Play" exactly when
\* it is Idle.
C16_LabelAgreesWithFlag ==
    /\ label_play_age_distribution = "Pause" <=> animating_age_distribution
    /\ label_play_age_distribution = "Play" <=> ~animating_age_distribution
    /\ label_play_median_age = "Pause" <=> animating_median_age
    /\ label_play_median_age = "Play" <=> ~animating_median_age

\* the age loop has just stopped itself at the bound while the median loop
\* is Playing
C16_Witness ==
    /\ handler = "animate_age_distribution:stop"
    /\ label_play_age_distribution = "Play"
    /\ label_play_median_age = "Pause"
    /\ animating_median_age

\* ------------------------------------------------------ loop independence
\* what belongs to each loop: flag, label, position (input, widget, messages)
\* and the tick effect's context
ageLoopVars ==
    << animating_age_distribution, label_play_age_distribution, year,
       slider_year, update_msgs.year, input_msgs.year, age_ctx >>
medianLoopVars ==
    << animating_median_age, label_play_median_age, median_year,
       slider_median_year, update_msgs.median_year, input_msgs.median_year,
       median_ctx >>
entityVars ==
    << entity, select_entity, update_msgs.entity, input_msgs.entity >>

\* C17: a toggle or a tick of the age loop leaves the median loop's flag,
\* label and position unchanged, and a toggle or a tick of the median loop
\* leaves the age loop's; the age loop writes only the year slider, the
\* median loop only the median-year slider, neither changes the entity; a
\* step that changes the flag or the label of both loops is the reset.
C17_LoopIndependence ==
    [][ /\ (play_age_distribution \/ animate_age_distribution) =>
              UNCHANGED << medianLoopVars, entityVars >>
        /\ (play_median_age \/ animate_median_age) =>
              UNCHANGED << ageLoopVars, entityVars >>
        /\ (/\ << animating_age_distribution, label_play_age_distribution >>'
                  # << animating_age_distribution, label_play_age_distribution >>
            /\ << animating_median_age, label_play_median_age >>'
                  # << animating_median_age, label_play_median_age >>) => reset
      ]_vars

\* a tick of the age loop has just advanced while the median loop is Playing
\* away from its initial position
C17_Witness ==
    /\ handler = "animate_age_distribution:advance"
    /\ animating_median_age
    /\ median_year # InitialMedianYear
    /\ Last(update_msgs.year).by = "tick"

====
